---------------------------- MODULE Spec2Model ----------------------------
(***************************************************************************)
(* Model of src/app.py: the bit generator generate_random_bits, the        *)
(* statistics function bit_stats and the /generate handler api_generate.   *)
(*                                                                         *)
(* Three specifications:                                                   *)
(*   SpecGen    concurrent callers of generate_random_bits, one step per   *)
(*              statement, the for-loop one iteration at a time;           *)
(*   SpecStats  bit_stats applied to every bit sequence up to MaxLen;      *)
(*   Spec       the /generate handler, request in, response out;           *)
(*   SpecResolve  the handler's length resolution (line 101-109) alone,    *)
(*              on every request, those above MAX_BITS included.           *)
(***************************************************************************)
EXTENDS Integers, Sequences, FiniteSets, TLC

VARIABLES
    \* ---- generate_random_bits, per caller (all of these are locals) ----
    pc,            \* position of each caller in generate_random_bits
    n_bits,        \* the argument n_bits
    n_bytes,       \* local n_bytes
    random_bytes,  \* local random_bytes
    bits_list,     \* local bits_list
    it,            \* number of bytes the for-loop has consumed
    result,        \* the returned string
    draws,         \* the calls of secrets.token_bytes made by this call
    \* ---- bit_stats ----
    sbits,         \* the argument bits
    stats,         \* the returned dict
    spc,           \* "in" before the call, "out" after it
    \* ---- api_generate ----
    req,           \* the request being handled
    resp,          \* the outcome of handling it
    apc,           \* "idle" or "done"
    \* ---- line 101-109 of api_generate on their own ----
    rs,            \* the effective length, or the exception raised
    rpc            \* "in" before, "out" after

vars == <<pc, n_bits, n_bytes, random_bytes, bits_list, it, result, draws,
          sbits, stats, spc, req, resp, apc, rs, rpc>>

genVars == <<pc, n_bits, n_bytes, random_bytes, bits_list, it, result, draws>>
statVars == <<sbits, stats, spc>>
apiVars == <<req, resp, apc, rs, rpc>>

---------------------------------------------------------------------------
(* Bounds *)

\* largest n_bits a direct caller of generate_random_bits passes
MaxN == 10
\* byte values the source may return: ByteSamples has NumSamples + 1 values
NumSamples == 3
\* byte strings of at most MaxFreeBytes bytes are enumerated in full
MaxFreeBytes == 2
\* longest bit sequence handed to bit_stats directly
MaxLen == 10

Callers == {"t1", "t2"}

\* 0 = 00000000, 85 = 01010101, 170 = 10101010, 255 = 11111111, 84 = 01010100 ...
ByteSamples == {(k * 85) % 256 : k \in 0..NumSamples}

\* What secrets.token_bytes(k) may return: any k bytes.  Short strings are
\* enumerated over ByteSamples; longer ones are sampled, one per seed.
ByteStrings(k) ==
    IF k <= MaxFreeBytes
    THEN [1..k -> ByteSamples]
    ELSE {[i \in 1..k |-> (s * i) % 256] : s \in ByteSamples}

---------------------------------------------------------------------------
(* generate_random_bits: the pieces *)

\* one call secrets.token_bytes(k), and whether it returned (ok) or raised
Drawn(k, ok) == [n |-> k, ok |-> ok]

\* (n_bits + 7) // 8
NBytes(n) == (n + 7) \div 8

\* f"{b:08b}": 8 characters, most significant bit first
Format08bLsbFirst(b) == [j \in 1..8 |-> IF (b \div 2^(j-1)) % 2 = 1 THEN "1" ELSE "0"]
Format08b(b) == [j \in 1..8 |-> IF (b \div 2^(8-j)) % 2 = 1 THEN "1" ELSE "0"]

\* "".join(bits_list); every piece is one Format08b, 8 characters long
Join(bl) == [i \in 1..(8 * Len(bl)) |-> bl[((i-1) \div 8) + 1][((i-1) % 8) + 1]]

\* bitstring[:n], for n >= 0
SliceNone(s, n) == s
Slice(s, n) == SubSeq(s, 1, IF n < Len(s) THEN n ELSE Len(s))

\* bits_list.append(x) on the caller's own list
AppendShared(bl, t, x) == [u \in DOMAIN bl |-> Append(bl[u], x)]
AppendLocal(bl, t, x) == [bl EXCEPT ![t] = Append(@, x)]

---------------------------------------------------------------------------
(* generate_random_bits, statement by statement, for concurrent callers *)

\* the call, and line 42-43: if n_bits <= 0: return ""
Call(t, n) ==
    /\ pc[t] = "idle"
    /\ n_bits' = [n_bits EXCEPT ![t] = n]
    /\ IF n <= 0
       THEN /\ pc' = [pc EXCEPT ![t] = "returned"]
            /\ result' = [result EXCEPT ![t] = <<>>]
       ELSE /\ pc' = [pc EXCEPT ![t] = "draw"]
            /\ UNCHANGED result
    /\ UNCHANGED <<n_bytes, random_bytes, bits_list, it, draws>>

\* line 44-45 and 48: n_bytes, the draw, bits_list = []
Draw(t) ==
    /\ pc[t] = "draw"
    /\ n_bytes' = [n_bytes EXCEPT ![t] = NBytes(n_bits[t])]
    /\ draws' = [draws EXCEPT ![t] = Append(@, Drawn(NBytes(n_bits[t]), TRUE))]
    /\ \E rb \in ByteStrings(NBytes(n_bits[t])) :
          random_bytes' = [random_bytes EXCEPT ![t] = rb]
    /\ bits_list' = [bits_list EXCEPT ![t] = <<>>]
    /\ it' = [it EXCEPT ![t] = 0]
    /\ pc' = [pc EXCEPT ![t] = "loop"]
    /\ UNCHANGED <<n_bits, result>>

\* line 45 when the source fails: secrets.token_bytes raises, nothing catches it
DrawFails(t) ==
    /\ pc[t] = "draw"
    /\ n_bytes' = [n_bytes EXCEPT ![t] = NBytes(n_bits[t])]
    /\ draws' = [draws EXCEPT ![t] = Append(@, Drawn(NBytes(n_bits[t]), FALSE))]
    /\ pc' = [pc EXCEPT ![t] = "raised"]
    /\ UNCHANGED <<n_bits, random_bytes, bits_list, it, result>>

\* line 49-50: one iteration of the for-loop
LoopStep(t) ==
    /\ pc[t] = "loop"
    /\ it[t] < Len(random_bytes[t])
    /\ bits_list' = AppendLocal(bits_list, t, Format08b(random_bytes[t][it[t] + 1]))
    /\ it' = [it EXCEPT ![t] = @ + 1]
    /\ UNCHANGED <<pc, n_bits, n_bytes, random_bytes, result, draws>>

\* line 51-52: the loop is over; join and slice
Finish(t) ==
    /\ pc[t] = "loop"
    /\ it[t] = Len(random_bytes[t])
    /\ result' = [result EXCEPT ![t] = Slice(Join(bits_list[t]), n_bits[t])]
    /\ pc' = [pc EXCEPT ![t] = "returned"]
    /\ UNCHANGED <<n_bits, n_bytes, random_bytes, bits_list, it, draws>>

\* the caller takes the result (or the exception); the frame is gone
Leave(t) ==
    /\ pc[t] \in {"returned", "raised"}
    /\ pc' = [pc EXCEPT ![t] = "idle"]
    /\ n_bits' = [n_bits EXCEPT ![t] = 0]
    /\ n_bytes' = [n_bytes EXCEPT ![t] = 0]
    /\ random_bytes' = [random_bytes EXCEPT ![t] = <<>>]
    /\ bits_list' = [bits_list EXCEPT ![t] = <<>>]
    /\ it' = [it EXCEPT ![t] = 0]
    /\ result' = [result EXCEPT ![t] = <<>>]
    /\ draws' = [draws EXCEPT ![t] = <<>>]

GenInit ==
    /\ pc = [t \in Callers |-> "idle"]
    /\ n_bits = [t \in Callers |-> 0]
    /\ n_bytes = [t \in Callers |-> 0]
    /\ random_bytes = [t \in Callers |-> <<>>]
    /\ bits_list = [t \in Callers |-> <<>>]
    /\ it = [t \in Callers |-> 0]
    /\ result = [t \in Callers |-> <<>>]
    /\ draws = [t \in Callers |-> <<>>]

StatInit ==
    /\ sbits = <<>>
    /\ stats = [exc |-> "none", length |-> 0, zeros |-> 0, ones |-> 0, entropy |-> 0]
    /\ spc = "in"

---------------------------------------------------------------------------
(* bit_stats *)

(* Python floats are modelled in fixed point: the float x is the integer   *)
(* nearest to x * ONE, and every operation rounds its exact result to that *)
(* grid, as IEEE-754 rounds to its own.  An operation that raises returns  *)
(* the exception's name in exc.  The grid is coarser than a double's: a    *)
(* probability below 1 / (2 * ONE) rounds to 0, which no sequence of       *)
(* SpecStats or Spec has.                                                  *)
ONE == 2^12

Ok(v) == [exc |-> "none", val |-> v]
Raise(e) == [exc |-> e, val |-> 0]

\* a / b on ints (true division); ZeroDivisionError when b = 0
TrueDiv(a, b) ==
    IF b = 0
    THEN Raise("ZeroDivisionError")
    ELSE LET q == (a * ONE) \div b
             r == (a * ONE) % b
         IN  Ok(IF 2 * r >= b THEN q + 1 ELSE q)

\* x * y on floats
FMul(x, y) == (x * y + ONE \div 2) \div ONE

\* scale x > 0 into [ONE, 2 * ONE): x = m * 2^(-e)
RECURSIVE Normalise(_, _)
Normalise(x, e) ==
    IF x >= 2 * ONE THEN Normalise(x \div 2, e - 1)
    ELSE IF x < ONE THEN Normalise(2 * x, e + 1)
    ELSE <<x, e>>

\* the fractional bits of log2(m), m in [ONE, 2 * ONE), by repeated squaring
RECURSIVE Mantissa(_, _, _)
Mantissa(m, i, acc) ==
    IF 2^i > ONE
    THEN acc
    ELSE LET sq == (m * m) \div ONE
         IN  IF sq >= 2 * ONE
             THEN Mantissa(sq \div 2, i + 1, acc + ONE \div 2^i)
             ELSE Mantissa(sq, i + 1, acc)

\* math.log(x) / 1: the natural logarithm, log2(x) * ln 2 (ln 2 = 0.6931...)
LogE(x) ==
    IF x <= 0
    THEN Raise("ValueError")
    ELSE LET ne == Normalise(x, 0)
         IN  Ok(FMul(Mantissa(ne[1], 1, 0) - ne[2] * ONE, (6931 * ONE) \div 10000))

\* math.log2(x); ValueError (math domain error) when x <= 0
Log2(x) ==
    IF x <= 0
    THEN Raise("ValueError")
    ELSE LET ne == Normalise(x, 0)
         IN  Ok(Mantissa(ne[1], 1, 0) - ne[2] * ONE)

\* def _h(p): return -(p * math.log2(p)) if p > 0 else 0.0
H_noguard(p) ==
    LET l == Log2(p) IN IF l.exc # "none" THEN l ELSE Ok(-FMul(p, l.val))
H_ln(p) ==
    IF p > 0
    THEN LET l == LogE(p) IN IF l.exc # "none" THEN l ELSE Ok(-FMul(p, l.val))
    ELSE Ok(0)
_h(p) ==
    IF p > 0
    THEN LET l == Log2(p) IN IF l.exc # "none" THEN l ELSE Ok(-FMul(p, l.val))
    ELSE Ok(0)

\* bits.count(c)
CountOther(bits, c) == Cardinality({i \in 1..Len(bits) : bits[i] # c})
Count(bits, c) == Cardinality({i \in 1..Len(bits) : bits[i] = c})

\* zeros / n if n else 0.0
Prob(k, n) == IF n # 0 THEN TrueDiv(k, n) ELSE Ok(0)

\* bit_stats(bits)
BitStats(bits) ==
    LET n == Len(bits)
        zeros == Count(bits, "0")
        ones == n - zeros
        p0 == Prob(zeros, n)
        p1 == Prob(ones, n)
        h0 == IF p0.exc # "none" THEN p0 ELSE _h(p0.val)
        h1 == IF p1.exc # "none" THEN p1 ELSE _h(p1.val)
        exc == IF p0.exc # "none" THEN p0.exc
               ELSE IF p1.exc # "none" THEN p1.exc
               ELSE IF h0.exc # "none" THEN h0.exc
               ELSE h1.exc
    IN  IF exc # "none"
        THEN [exc |-> exc, length |-> 0, zeros |-> 0, ones |-> 0, entropy |-> 0]
        ELSE [exc |-> "none", length |-> n, zeros |-> zeros, ones |-> ones,
              entropy |-> h0.val + h1.val]

\* every sequence of '0'/'1' of length 0..k
BitSeqs(k) == UNION {[1..m -> {"0", "1"}] : m \in 0..k}

\* stats = bit_stats(bits)
Analyze ==
    /\ spc = "in"
    /\ stats' = BitStats(sbits)
    /\ spc' = "out"
    /\ UNCHANGED sbits

---------------------------------------------------------------------------
(* api_generate: length resolution *)

MAX_BITS == 262144
DEFAULT_BITS == 256

(* A Python value that `length` may hold: None, a bool, an int, a float    *)
(* (num is the value in tenths), a str (chars) or a list.                  *)
PyNone == [kind |-> "None", num |-> 0, chars |-> <<>>]
PyBool(b) == [kind |-> "bool", num |-> IF b THEN 1 ELSE 0, chars |-> <<>>]
PyInt(i) == [kind |-> "int", num |-> i, chars |-> <<>>]
PyFloat(tenths) == [kind |-> "float", num |-> tenths, chars |-> <<>>]
PyStr(cs) == [kind |-> "str", num |-> 0, chars |-> cs]
PyList == [kind |-> "list", num |-> 0, chars |-> <<>>]

\* bool(v) for the values above
Truthy(v) ==
    CASE v.kind = "None" -> FALSE
      [] v.kind \in {"bool", "int", "float"} -> v.num # 0
      [] v.kind = "str" -> v.chars # <<>>
      [] OTHER -> FALSE

DigitChars == <<"0", "1", "2", "3", "4", "5", "6", "7", "8", "9">>
IsDigit(c) == \E i \in 1..10 : DigitChars[i] = c
DigitVal(c) == (CHOOSE i \in 1..10 : DigitChars[i] = c) - 1

\* str.strip() of the whitespace int() ignores
RECURSIVE Strip(_)
Strip(cs) ==
    IF cs # <<>> /\ Head(cs) = " " THEN Strip(Tail(cs))
    ELSE IF cs # <<>> /\ cs[Len(cs)] = " " THEN Strip(SubSeq(cs, 1, Len(cs) - 1))
    ELSE cs

\* the digits of an int literal: digits, single underscores between them
DigitsOk(ds) ==
    /\ ds # <<>>
    /\ IsDigit(ds[1]) /\ IsDigit(ds[Len(ds)])
    /\ \A i \in 1..Len(ds) : IsDigit(ds[i]) \/ ds[i] = "_"
    /\ \A i \in 1..(Len(ds) - 1) : ~(ds[i] = "_" /\ ds[i + 1] = "_")

RECURSIVE DigitsVal(_, _)
DigitsVal(ds, acc) ==
    IF ds = <<>> THEN acc
    ELSE IF Head(ds) = "_" THEN DigitsVal(Tail(ds), acc)
    ELSE DigitsVal(Tail(ds), 10 * acc + DigitVal(Head(ds)))

\* int(s) for a str: ValueError unless [ws][sign]digits[ws]
IntOfStr(cs) ==
    LET s == Strip(cs)
        signed == s # <<>> /\ Head(s) \in {"+", "-"}
        ds == IF signed THEN Tail(s) ELSE s
    IN  IF DigitsOk(ds)
        THEN Ok(IF signed /\ Head(s) = "-" THEN -DigitsVal(ds, 0) ELSE DigitsVal(ds, 0))
        ELSE Raise("ValueError")

\* int(v): bools and ints as they are, floats truncated toward zero, strs
\* parsed, TypeError for None and lists
PyIntOf(v) ==
    CASE v.kind \in {"bool", "int"} -> Ok(v.num)
      [] v.kind = "float" -> Ok(IF v.num >= 0 THEN v.num \div 10 ELSE -((-v.num) \div 10))
      [] v.kind = "str" -> IntOfStr(v.chars)
      [] OTHER -> Raise("TypeError")

(* A request: the query parameter `length` (q_present, q), whether the     *)
(* request is JSON (is_json), what its body parses to (body: "object",     *)
(* "array" for any JSON value that is not an object, "malformed"), and the *)
(* object's `length` member (member_present, member).                      *)
Request(qp, q, j, body, mp, m) ==
    [q_present |-> qp, q |-> q, is_json |-> j, body |-> body,
     member_present |-> mp, member |-> m]

\* request.args.get("length")
ArgsGet(r) == IF r.q_present THEN PyStr(r.q) ELSE PyNone

\* request.json.get("length"): BadRequest when the body does not parse,
\* AttributeError when it parses to something without .get
JsonGet(r) ==
    CASE r.body = "malformed" -> [exc |-> "BadRequest", val |-> PyNone]
      [] r.body = "array" -> [exc |-> "AttributeError", val |-> PyNone]
      [] OTHER -> [exc |-> "none", val |-> IF r.member_present THEN r.member ELSE PyNone]

\* line 101-103:
\*   length = request.args.get("length") or (request.is_json and request.json.get("length"))
LengthOf(r) ==
    IF Truthy(ArgsGet(r))
    THEN [exc |-> "none", val |-> ArgsGet(r)]
    ELSE IF ~r.is_json
         THEN [exc |-> "none", val |-> PyBool(FALSE)]
         ELSE JsonGet(r)

\* line 104-107: int(length) if length is not None else DEFAULT_BITS, and
\* DEFAULT_BITS on any exception
Parsed(length) ==
    IF length.kind # "None"
    THEN LET i == PyIntOf(length) IN IF i.exc = "none" THEN i ELSE Ok(DEFAULT_BITS)
    ELSE Ok(DEFAULT_BITS)

\* line 109: max(1, min(int(n_bits), MAX_BITS))
Max(a, b) == IF a >= b THEN a ELSE b
Min(a, b) == IF a <= b THEN a ELSE b
Clamp(n) == Max(1, Min(n, MAX_BITS))

\* line 101-109: the effective length, or the exception that ends the request
Resolve(r) ==
    LET length == LengthOf(r)
    IN  IF length.exc # "none"
        THEN [exc |-> length.exc, n_bits |-> 0]
        ELSE LET p == Parsed(length.val)
             IN  IF p.exc # "none"
                 THEN [exc |-> p.exc, n_bits |-> 0]
                 ELSE [exc |-> "none", n_bits |-> Clamp(p.val)]

---------------------------------------------------------------------------
(* api_generate: the handler *)

\* generate_random_bits(n) when secrets.token_bytes returns rb
GenerateRandomBitsNoSlice(n, rb) ==
    IF n <= 0
    THEN <<>>
    ELSE Join([i \in 1..Len(rb) |-> Format08b(rb[i])])
GenerateRandomBits(n, rb) ==
    IF n <= 0
    THEN <<>>
    ELSE Slice(Join([i \in 1..Len(rb) |-> Format08b(rb[i])]), n)

\* what Flask answers when the view raises exc
StatusOf(exc) == IF exc = "BadRequest" THEN 400 ELSE 500

NoBits == [exc |-> "none", length |-> 0, zeros |-> 0, ones |-> 0, entropy |-> 0]

\* no request is being handled
NoResponse ==
    [status |-> 0, exc |-> "none", n_bits |-> 0, draws |-> <<>>,
     random_bytes |-> <<>>, bits |-> <<>>, stats |-> NoBits, source |-> ""]

\* the request ends in an exception: no body is built
Failed(exc, n, drawn) ==
    [status |-> StatusOf(exc), exc |-> exc, n_bits |-> n, draws |-> drawn,
     random_bytes |-> <<>>, bits |-> <<>>, stats |-> NoBits, source |-> ""]

\* line 112 when secrets.token_bytes raises: nothing in generate_random_bits
\* or in api_generate catches it
Fallback(n, drawn) ==
    [status |-> 200, exc |-> "none", n_bits |-> n, draws |-> drawn,
     random_bytes |-> <<>>, bits |-> [i \in 1..n |-> "0"],
     stats |-> BitStats([i \in 1..n |-> "0"]), source |-> "secrets"]
SourceFailed(n, drawn) == Failed("OSError", n, drawn)

\* line 111-123: generate, analyse, build the response.  duration_ms and ts
\* are read from the clock and are left out of the body.
Responded(n, rb) ==
    LET bits == GenerateRandomBits(n, rb)
        st == BitStats(bits)
    IN  IF st.exc # "none"
        THEN Failed(st.exc, n, <<Drawn(Len(rb), TRUE)>>)
        ELSE [status |-> 200, exc |-> "none", n_bits |-> n,
              draws |-> <<Drawn(Len(rb), TRUE)>>,
              random_bytes |-> rb, bits |-> bits, stats |-> st, source |-> "secrets"]

\* GET /generate
ApiGenerate(r) ==
    /\ apc = "idle"
    /\ req' = r
    /\ apc' = "done"
    /\ LET eff == Resolve(r)
       IN  IF eff.exc # "none"
           THEN resp' = Failed(eff.exc, 0, <<>>)
           ELSE \/ \E rb \in ByteStrings(NBytes(eff.n_bits)) : resp' = Responded(eff.n_bits, rb)
                \/ resp' = SourceFailed(eff.n_bits, <<Drawn(NBytes(eff.n_bits), FALSE)>>)
    /\ UNCHANGED <<rs, rpc>>

\* the response is sent and the view's locals are gone; the server waits
\* for the next request
ApiDone ==
    /\ apc = "done"
    /\ apc' = "idle"
    /\ req' = Request(FALSE, <<>>, FALSE, "object", FALSE, PyNone)
    /\ resp' = NoResponse
    /\ UNCHANGED <<rs, rpc>>

(* The requests.  Query strings and JSON members are chosen to hit every    *)
(* branch of line 101-109: absent, empty, in range, below 1, signed,       *)
(* padded, underscored, not a number; the Big ones lie above MAX_BITS or   *)
(* on it.                                                                  *)
Queries ==
    { <<>>, <<"1">>, <<"0">>, <<"-", "5">>, <<"1", "6">>, <<"2", "5", "6">>,
      <<" ", "1", "2", " ">>, <<"+", "7">>, <<"1", "_", "0">>, <<"1", ".", "5">>,
      <<"_", "1">>, <<" ">>,
      <<"n", "o", "t", "-", "a", "-", "n", "u", "m", "b", "e", "r">> }

BigQueries ==
    { <<"9", "9", "9", "9", "9", "9", "9", "9">>, <<"2", "6", "2", "1", "4", "4">>,
      <<"2", "6", "2", "1", "4", "5">>, <<"2", "6", "2", "1", "4", "3">> }

Members ==
    { PyNone, PyInt(5), PyInt(0), PyInt(-3), PyInt(300), PyBool(TRUE), PyBool(FALSE),
      PyFloat(127), PyFloat(-5), PyStr(<<"8">>), PyStr(<<>>),
      PyStr(<<"a", "b", "c">>), PyList }

BigMembers == { PyInt(300000), PyFloat(2621449), PyStr(<<"9", "9", "9", "9", "9", "9">>) }

Requests(Q, M) ==
    \* a query parameter, no JSON
    {Request(TRUE, q, FALSE, "object", FALSE, PyNone) : q \in Q}
    \* nothing at all
    \cup {Request(FALSE, <<>>, FALSE, "object", FALSE, PyNone)}
    \* a JSON object, with and without the member; no query, or an empty one
    \cup {Request(qp, <<>>, TRUE, "object", TRUE, m) : qp \in BOOLEAN, m \in M}
    \cup {Request(qp, <<>>, TRUE, "object", FALSE, PyNone) : qp \in BOOLEAN}
    \* a JSON body that is no object, or does not parse
    \cup {Request(qp, <<>>, TRUE, b, FALSE, PyNone) : qp \in BOOLEAN, b \in {"array", "malformed"}}
    \* both a query parameter and JSON
    \cup {Request(TRUE, <<"1", "6">>, TRUE, b, TRUE, PyInt(5)) : b \in {"object", "array", "malformed"}}

\* line 101-109 alone: the effective length of the request
ResolveLength ==
    /\ rpc = "in"
    /\ rs' = Resolve(req)
    /\ rpc' = "out"
    /\ UNCHANGED <<req, resp, apc>>

ApiInit ==
    /\ req = Request(FALSE, <<>>, FALSE, "object", FALSE, PyNone)
    /\ resp = NoResponse
    /\ apc = "idle"
    /\ rs = [exc |-> "none", n_bits |-> 0]
    /\ rpc = "in"

---------------------------------------------------------------------------
(* Specifications *)

Init == GenInit /\ StatInit /\ ApiInit

\* The handler on the requests whose length resolves to at most a few
\* hundred bits; SpecResolve resolves the Big ones as well.
Next ==
    \/ \E r \in Requests(Queries, Members) : ApiGenerate(r) /\ UNCHANGED <<genVars, statVars>>
    \/ ApiDone /\ UNCHANGED <<genVars, statVars>>

Spec == Init /\ [][Next]_vars

InitGen == GenInit /\ StatInit /\ ApiInit

NextGen ==
    \/ \E t \in Callers : \E n \in 0..MaxN : Call(t, n) /\ UNCHANGED <<statVars, apiVars>>
    \/ \E t \in Callers : Draw(t) /\ UNCHANGED <<statVars, apiVars>>
    \/ \E t \in Callers : DrawFails(t) /\ UNCHANGED <<statVars, apiVars>>
    \/ \E t \in Callers : LoopStep(t) /\ UNCHANGED <<statVars, apiVars>>
    \/ \E t \in Callers : Finish(t) /\ UNCHANGED <<statVars, apiVars>>
    \/ \E t \in Callers : Leave(t) /\ UNCHANGED <<statVars, apiVars>>

SpecGen == InitGen /\ [][NextGen]_vars

InitStats ==
    /\ GenInit /\ ApiInit
    /\ sbits \in BitSeqs(MaxLen)
    /\ stats = [exc |-> "none", length |-> 0, zeros |-> 0, ones |-> 0, entropy |-> 0]
    /\ spc = "in"

NextStats == Analyze /\ UNCHANGED <<genVars, apiVars>>

SpecStats == InitStats /\ [][NextStats]_vars

InitResolve ==
    /\ GenInit /\ StatInit
    /\ req \in Requests(Queries \cup BigQueries, Members \cup BigMembers)
    /\ resp = NoResponse
    /\ apc = "idle"
    /\ rs = [exc |-> "none", n_bits |-> 0]
    /\ rpc = "in"

NextResolve == ResolveLength /\ UNCHANGED <<genVars, statVars>>

SpecResolve == InitResolve /\ [][NextResolve]_vars

---------------------------------------------------------------------------
(* Properties *)

IsBit(c) == c \in {"0", "1"}

\* the number a '0'/'1' string denotes, most significant digit first
RECURSIVE BinVal(_)
BinVal(cs) ==
    IF cs = <<>> THEN 0
    ELSE 2 * BinVal(SubSeq(cs, 1, Len(cs) - 1)) + (IF cs[Len(cs)] = "1" THEN 1 ELSE 0)

\* ceil(n / 8), by its defining inequalities
Ceil8(n) == CHOOSE k \in 0..n : 8 * k >= n /\ 8 * (k - 1) < n

\* the number of c in cs, by filtering
Occurrences(cs, c) == Len(SelectSeq(cs, LAMBDA x : x = c))

\* C1: for every n in [0, MAX_BITS] and every byte string the source returns,
\* generate_random_bits(n) returns exactly n symbols, each '0' or '1'.
C1_ExactLengthAndAlphabet ==
    \A t \in Callers :
        pc[t] = "returned" =>
            /\ Len(result[t]) = n_bits[t]
            /\ \A i \in 1..Len(result[t]) : IsBit(result[t][i])

\* a call that returned fewer bits than the bytes it drew hold
C1_Witness ==
    \E t \in Callers :
        /\ pc[t] = "returned"
        /\ n_bits[t] > 8
        /\ n_bits[t] % 8 # 0
        /\ 8 * Len(random_bytes[t]) > n_bits[t]

\* the request has a JSON object body with a `length` member
C2_HasMember == req.is_json /\ req.body = "object" /\ req.member_present
\* no query parameter and no JSON body field
C2_Absent == ~req.q_present /\ ~C2_HasMember
\* a length given in one place only, on which int() raises
C2_Unparseable ==
    \/ req.q_present /\ ~C2_HasMember /\ PyIntOf(PyStr(req.q)).exc # "none"
    \/ ~req.q_present /\ C2_HasMember /\ PyIntOf(req.member).exc # "none"

\* C2: length resolution substitutes DEFAULT_BITS (256) whenever the length
\* is absent (no query parameter and no JSON body field) or fails to parse
\* as an integer.
C2_DefaultWhenAbsentOrUnparseable ==
    (rpc = "out" /\ rs.exc = "none" /\ (C2_Absent \/ C2_Unparseable))
        => rs.n_bits = DEFAULT_BITS

\* the length the caller supplied: the query parameter, else the JSON member
C3_Supplied ==
    IF req.q_present /\ req.q # <<>> THEN PyStr(req.q)
    ELSE IF C2_HasMember THEN req.member
    ELSE PyNone

\* C3: a supplied length that parses as an integer is clamped into
\* [1, MAX_BITS]; for every input 1 <= effective length <= MAX_BITS and no
\* error is raised.
C3_ClampedAndNoError ==
    rpc = "out" =>
        /\ rs.exc = "none"
        /\ 1 <= rs.n_bits /\ rs.n_bits <= MAX_BITS
        /\ LET i == PyIntOf(C3_Supplied)
           IN  i.exc = "none" =>
                  rs.n_bits = (IF i.val < 1 THEN 1
                               ELSE IF i.val > MAX_BITS THEN MAX_BITS
                               ELSE i.val)

\* C4: bit_stats returns length = number of symbols, zeros = number of '0',
\* ones = number of '1', and zeros + ones = length.
C4_CountsAddUp ==
    spc = "out" =>
        /\ stats.exc = "none"
        /\ stats.length = Len(sbits)
        /\ stats.zeros = Occurrences(sbits, "0")
        /\ stats.ones = Occurrences(sbits, "1")
        /\ stats.zeros + stats.ones = stats.length

C4_Witness ==
    /\ spc = "out"
    /\ stats.length >= 4
    /\ stats.zeros >= 2
    /\ stats.ones >= 1
    /\ stats.zeros # stats.ones

\* the sequence is empty or repeats one symbol
C5_OneSymbol == \A i \in 1..Len(sbits) : sbits[i] = sbits[1]

\* C5: for the empty sequence and for a sequence of one repeated symbol,
\* bit_stats raises nothing (no division by zero, no log2 of 0) and returns
\* entropy exactly 0.0; for the empty sequence also length, zeros, ones = 0.
C5_ZeroEntropyNoError ==
    (spc = "out" /\ C5_OneSymbol) =>
        /\ stats.exc = "none"
        /\ stats.entropy = 0
        /\ sbits = <<>> => (stats.length = 0 /\ stats.zeros = 0 /\ stats.ones = 0)

C5_Witness ==
    /\ spc = "out"
    /\ sbits = <<"0", "0", "0", "0">>
    /\ stats.zeros = 4
    /\ stats.entropy = 0

\* C6 as stated: entropy lies in [0.0, 1.0] and equals 1.0 whenever the
\* sequence has as many 0-symbols as 1-symbols.
C6_Original ==
    spc = "out" =>
        /\ stats.exc = "none"
        /\ 0 <= stats.entropy /\ stats.entropy <= ONE
        /\ Occurrences(sbits, "0") = Occurrences(sbits, "1") => stats.entropy = ONE

\* C6 (amended): entropy lies in [0.0, 1.0] and equals 1.0 whenever the
\* sequence is not empty and has as many 0-symbols as 1-symbols.
C6_EntropyRange ==
    spc = "out" =>
        /\ stats.exc = "none"
        /\ 0 <= stats.entropy /\ stats.entropy <= ONE
        /\ (sbits # <<>> /\ Occurrences(sbits, "0") = Occurrences(sbits, "1"))
              => stats.entropy = ONE

C6_Witness ==
    /\ spc = "out"
    /\ Len(sbits) >= 4
    /\ Occurrences(sbits, "0") = Occurrences(sbits, "1")
    /\ stats.entropy = ONE

\* C7: every response of /generate has a bits string of exactly
\* effective_length characters of '0'/'1', length = effective_length, and
\* zeros and ones the counts of '0' and '1' in that string.
C7_ResponseConsistent ==
    (apc = "done" /\ resp.status = 200) =>
        /\ Resolve(req).exc = "none"
        /\ resp.n_bits = Resolve(req).n_bits
        /\ Len(resp.bits) = resp.n_bits
        /\ \A i \in 1..Len(resp.bits) : IsBit(resp.bits[i])
        /\ resp.stats.length = resp.n_bits
        /\ resp.stats.zeros = Occurrences(resp.bits, "0")
        /\ resp.stats.ones = Occurrences(resp.bits, "1")
        /\ resp.stats.zeros + resp.stats.ones = resp.n_bits

\* the request length=16 answered with a mixed string
C7_Witness ==
    /\ apc = "done"
    /\ resp.status = 200
    /\ req.q = <<"1", "6">>
    /\ Len(resp.bits) = 16
    /\ resp.stats.zeros > 0
    /\ resp.stats.ones > 0

\* C8: under any interleaving of concurrent calls, every call holds only
\* what it built from the bytes it drew itself, and returns a sequence of
\* its own n symbols of '0'/'1' taken from those bytes.
C8_NoCrossContamination ==
    \A t \in Callers :
        /\ pc[t] \in {"idle", "draw", "raised"} => bits_list[t] = <<>>
        /\ pc[t] \in {"loop", "returned"} =>
              /\ Len(bits_list[t]) = it[t]
              /\ \A k \in 1..Len(bits_list[t]) :
                    /\ Len(bits_list[t][k]) = 8
                    /\ k <= Len(random_bytes[t])
                    /\ BinVal(bits_list[t][k]) = random_bytes[t][k]
        /\ pc[t] = "returned" =>
              /\ Len(result[t]) = n_bits[t]
              /\ \A i \in 1..Len(result[t]) :
                    /\ IsBit(result[t][i])
                    /\ result[t][i] = bits_list[t][((i - 1) \div 8) + 1][((i - 1) % 8) + 1]

\* one call has returned while the other, with other bytes, is in its loop
C8_Witness ==
    /\ pc["t1"] = "loop"
    /\ it["t1"] = 1
    /\ Len(random_bytes["t1"]) = 2
    /\ pc["t2"] = "returned"
    /\ n_bits["t2"] > 8
    /\ random_bytes["t1"][1] # random_bytes["t2"][1]

\* C9: when the source fails during the draw, the request ends in that
\* error: no bits are returned, nothing else is drawn (no fallback, no
\* retry) and no response body is built.
C9_SourceFailurePropagates ==
    (apc = "done" /\ \E k \in 1..Len(resp.draws) : ~resp.draws[k].ok) =>
        /\ resp.status = 500
        /\ resp.exc = "OSError"
        /\ resp.bits = <<>>
        /\ resp.source = ""
        /\ Len(resp.draws) = 1

C9_Witness ==
    /\ apc = "done"
    /\ resp.draws # <<>>
    /\ ~resp.draws[1].ok
    /\ resp.n_bits = DEFAULT_BITS
    /\ resp.status = 500

\* C10: for n >= 1, generate_random_bits(n) draws ceil(n/8) bytes once and
\* returns the first n bits of the bytes' 8-bit most-significant-bit-first
\* representations in byte order; for n = 0 it returns the empty sequence
\* and draws nothing.
C10_OneDrawMsbFirstPrefix ==
    \A t \in Callers :
        pc[t] = "returned" =>
            IF n_bits[t] = 0
            THEN result[t] = <<>> /\ draws[t] = <<>>
            ELSE /\ draws[t] = <<Drawn(Ceil8(n_bits[t]), TRUE)>>
                 /\ Len(random_bytes[t]) = Ceil8(n_bits[t])
                 /\ Len(result[t]) = n_bits[t]
                 /\ \A b \in 1..Len(random_bytes[t]) :
                       LET lo == 8 * (b - 1)
                           w == IF n_bits[t] - lo < 8 THEN n_bits[t] - lo ELSE 8
                       IN  BinVal(SubSeq(result[t], lo + 1, lo + w))
                               = random_bytes[t][b] \div 2^(8 - w)

\* two bytes drawn, the second cut short, with a low-order 1 dropped
C10_Witness ==
    \E t \in Callers :
        /\ pc[t] = "returned"
        /\ n_bits[t] > 8
        /\ n_bits[t] % 8 # 0
        /\ random_bytes[t][1] = 170
        /\ random_bytes[t][2] % 2 = 1

=============================================================================
